---------------------------- MODULE Spec2Model ----------------------------
(***************************************************************************)
(* Model of the answer-formatting pipeline of src/src/llm.py:              *)
(*   format_math_expression / process_braces, extract_latex_blocks,        *)
(*   format_line_message, format_solution.                                 *)
(*                                                                         *)
(* A Python str is modelled as a sequence of one-character strings.        *)
(* Python indices are 0-based: At(s, n) is s[n], Slice(s, a, b) is s[a:b]. *)
(* A non-ASCII code point the code emits is one element named by its code  *)
(* point ("U+221A" is the square-root sign).                               *)
(***************************************************************************)
EXTENDS Naturals, Integers, Sequences, FiniteSets, TLC

VARIABLES
    pc,               \* position of the running function
    arg,              \* the argument the function was called with
    ret,              \* the value returned (NoValue until it returns)
    latex,            \* format_math_expression: local "latex"
    stack,            \* process_braces: the call stack of frames
    text,             \* extract_latex_blocks / format_solution: local "text"
    matches,          \* extract_latex_blocks: list(re.finditer(...)) as spans
    latex_blocks,     \* extract_latex_blocks / format_solution: "latex_blocks"
    loop_i,           \* the loop variable "i" of the running for-loop
    lines,            \* format_line_message: text.split('\n')
    formatted_lines,  \* format_line_message: "formatted_lines"
    user_input,       \* generate_answer: parameter "user_input"
    max_retries,      \* call_openrouter: parameter "max_retries"
    attempt,          \* call_openrouter: loop variable "attempt"
    answer,           \* generate_answer: local "answer"
    calls,            \* call_openrouter: what the running call has awaited so far
    events,           \* AsyncWebhookHandler.handle: "events"
    results,          \* AsyncWebhookHandler.handle: "results"
    solution,         \* handle_text_message: local "solution"
    replies           \* every reply_message call made so far, in order

\* The variables of the bot around the pipeline (llm.py 26-45, 239-265; main.py)
bot == <<user_input, max_retries, attempt, answer, calls, events, results,
         solution, replies>>

vars == <<pc, arg, ret, latex, stack, text, matches, latex_blocks, loop_i, lines,
          formatted_lines, bot>>

\* Values that are no str: nothing returned yet, and Python's None.
NoValue == <<"NoValue">>
None == <<"None">>

\* The bot's variables while a pipeline function runs on its own
BotIdle ==
    /\ user_input = NoValue
    /\ max_retries = 0
    /\ attempt = 0
    /\ answer = NoValue
    /\ calls = <<>>
    /\ events = <<>>
    /\ results = <<>>
    /\ solution = NoValue
    /\ replies = <<>>

(***************************************************************************)
(* Bounds of the model.                                                    *)
(***************************************************************************)
MaxMathPieces == 4
MaxDepth == 1
MaxTextPieces == 4
MaxLines == 3
MaxAnswerPieces == 3

(***************************************************************************)
(* Python str primitives.                                                  *)
(***************************************************************************)
BS == "\\"

At(s, n) == s[n + 1]

Min(a, b) == IF a < b THEN a ELSE b

\* s[a:b] for 0 <= a, 0 <= b: clamped to the string, empty when b <= a.
Slice(s, a, b) ==
    IF Min(b, Len(s)) <= a THEN <<>> ELSE SubSeq(s, a + 1, Min(b, Len(s)))

\* s[a:]
SliceFrom(s, a) == Slice(s, a, Len(s))

startswith(s, p) == Len(p) <= Len(s) /\ SubSeq(s, 1, Len(p)) = p

endswith(s, p) ==
    Len(p) <= Len(s) /\ SubSeq(s, Len(s) - Len(p) + 1, Len(s)) = p

\* str.startswith with a tuple of prefixes
startswith_any(s, ps) == \E p \in ps : startswith(s, p)

Contains(s, c) == \E n \in 1..Len(s) : s[n] = c

\* The characters str.strip() removes, among those the model uses.
IsSpace(c) == c \in {" ", "\t", "\n", "\r"}

Lower == {"a", "b", "c", "d", "e", "f", "g", "h", "i", "j", "k", "l", "m",
          "n", "o", "p", "q", "r", "s", "t", "u", "v", "w", "x", "y", "z"}

Upper == {"A", "B", "C", "D", "E", "F", "G", "H", "I", "J", "K", "L", "M",
          "N", "O", "P", "Q", "R", "S", "T", "U", "V", "W", "X", "Y", "Z"}

\* str.isalpha() on one character
isalpha(c) == c \in Lower \cup Upper

RECURSIVE lstrip_ws(_)
lstrip_ws(s) ==
    IF s # <<>> /\ IsSpace(Head(s)) THEN lstrip_ws(Tail(s)) ELSE s

RECURSIVE rstrip_ws(_)
rstrip_ws(s) ==
    IF s # <<>> /\ IsSpace(s[Len(s)])
    THEN rstrip_ws(SubSeq(s, 1, Len(s) - 1))
    ELSE s

\* str.strip()
strip(s) == lstrip_ws(rstrip_ws(s))

\* str.lstrip(chars) for one character
RECURSIVE lstrip_char(_, _)
lstrip_char(s, c) ==
    IF s # <<>> /\ Head(s) = c THEN lstrip_char(Tail(s), c) ELSE s

\* str.replace(old, new): non-overlapping occurrences, left to right
RECURSIVE replace(_, _, _)
replace(s, old, new) ==
    IF Len(s) < Len(old) \/ old = <<>> THEN s
    ELSE IF startswith(s, old)
         THEN new \o replace(SliceFrom(s, Len(old)), old, new)
         ELSE <<Head(s)>> \o replace(Tail(s), old, new)

\* str.join
RECURSIVE join(_, _)
join(sep, ss) ==
    IF ss = <<>> THEN <<>>
    ELSE IF Len(ss) = 1 THEN ss[1]
    ELSE ss[1] \o sep \o join(sep, Tail(ss))

\* str.split(sep) for a one-character separator
RECURSIVE split(_, _)
split(s, c) ==
    IF ~Contains(s, c) THEN <<s>>
    ELSE LET n == CHOOSE m \in 1..Len(s) :
                      s[m] = c /\ \A q \in 1..(m - 1) : s[q] # c
         IN  <<SubSeq(s, 1, n - 1)>> \o split(SliceFrom(s, n), c)

\* str(n) for a small natural number
Digit(n) == <<"0", "1", "2", "3", "4", "5", "6", "7", "8", "9">>[n + 1]

RECURSIVE str(_)
str(n) == IF n < 10 THEN <<Digit(n)>> ELSE str(n \div 10) \o <<Digit(n % 10)>>

\* The concatenation of a sequence of strings
RECURSIVE Concat(_)
Concat(ss) == IF ss = <<>> THEN <<>> ELSE Head(ss) \o Concat(Tail(ss))

\* All sequences over S of length at most n
RECURSIVE SeqsUpTo(_, _)
SeqsUpTo(S, n) ==
    IF n = 0 THEN {<<>>}
    ELSE LET shorter == SeqsUpTo(S, n - 1)
         IN  shorter \cup {Append(q, x) : q \in shorter, x \in S}


(***************************************************************************)
(* format_math_expression: the clean-up before the brace walk.             *)
(***************************************************************************)
TIMES == "U+00D7"
DIV == "U+00F7"
LE == "U+2264"
GE == "U+2265"
NEQ == "U+2260"
APPROX == "U+2248"
PM == "U+00B1"
CDOT == "U+00B7"
SUBX == "U+2093"
SUPN == "U+207F"
ROOT == "U+221A"

\* The dict symbol_replacements, in insertion order, as <<old, new>> pairs.
symbol_replacements ==
    << <<<<BS, "t", "i", "m", "e", "s">>, <<TIMES>>>>,
       <<<<BS, "d", "i", "v">>, <<DIV>>>>,
       <<<<BS, "l", "e">>, <<LE>>>>,
       <<<<BS, "g", "e">>, <<GE>>>>,
       <<<<BS, "n", "e", "q">>, <<NEQ>>>>,
       <<<<BS, "a", "p", "p", "r", "o", "x">>, <<APPROX>>>>,
       <<<<BS, "p", "m">>, <<PM>>>>,
       <<<<BS, "c", "d", "o", "t">>, <<CDOT>>>>,
       <<<<"_">>, <<SUBX>>>>,
       <<<<"^">>, <<SUPN>>>> >>

\* for old, new in symbol_replacements.items(): latex = latex.replace(old, new)
RECURSIVE ReplaceSymbols(_, _)
ReplaceSymbols(l, n) ==
    IF n > Len(symbol_replacements) THEN l
    ELSE ReplaceSymbols(
             replace(l, symbol_replacements[n][1], symbol_replacements[n][2]),
             n + 1)

OPEN_DISPLAY == <<BS, "[">>
CLOSE_DISPLAY == <<BS, "]">>
OPEN_INLINE == <<BS, "(">>
CLOSE_INLINE == <<BS, ")">>

\* l.strip(), then one matching pair of delimiters removed and stripped again
StripDelimiters(l0) ==
    LET l == strip(l0)
    IN  IF startswith(l, OPEN_DISPLAY) /\ endswith(l, CLOSE_DISPLAY)
        THEN strip(Slice(l, 2, Len(l) - 2))
        ELSE IF startswith(l, OPEN_INLINE) /\ endswith(l, CLOSE_INLINE)
        THEN strip(Slice(l, 2, Len(l) - 2))
        ELSE l

\* The text process_braces is called on.
CleanLatex(l) == ReplaceSymbols(StripDelimiters(l), 1)

(***************************************************************************)
(* process_braces: one iteration of its while loop, as data.               *)
(***************************************************************************)
FRAC == <<BS, "f", "r", "a", "c">>
SQRT == <<BS, "s", "q", "r", "t">>

\* A command scan that starts on the backslash itself and so never moves.
ScanCmdEndFromBackslash(expr, cmd_end) == cmd_end - 1

\* while cmd_end < len(expr) and expr[cmd_end].isalpha(): cmd_end += 1
RECURSIVE ScanCmdEnd(_, _)
ScanCmdEnd(expr, cmd_end) ==
    IF cmd_end < Len(expr) /\ isalpha(At(expr, cmd_end))
    THEN ScanCmdEnd(expr, cmd_end + 1)
    ELSE cmd_end

\* while i < len(expr) and brace_level > 0: ...; i += 1     (the value of i after it)
RECURSIVE ScanGroup(_, _, _)
ScanGroup(expr, j, brace_level) ==
    IF j < Len(expr) /\ brace_level > 0
    THEN ScanGroup(expr, j + 1,
                   IF At(expr, j) = "{" THEN brace_level + 1
                   ELSE IF At(expr, j) = "}" THEN brace_level - 1
                   ELSE brace_level)
    ELSE j

\* A skip that drops the opening brace only and lets the content through.
SkipOtherBraceOnly(expr, j) == j + 1

\* The branch "Skip other braced content": the index after the skipped group.
SkipOther(expr, j) == ScanGroup(expr, j + 1, 1)

\* A fraction written without the parentheses around the denominator.
FracTextBareDen(num_r, den_r) == <<"(">> \o num_r \o <<")", "/">> \o den_r

\* f"({num})/({den})" on the two rendered arguments
FracText(num_r, den_r) == <<"(">> \o num_r \o <<")", "/", "(">> \o den_r \o <<")">>

\* f"(sqrt-sign)({content})"
SqrtText(content_r) == <<ROOT, "(">> \o content_r \o <<")">>

\* One iteration at index j < len(expr) with the command seen so far:
\* the branch taken, the index and command after it, and what it emits or calls.
PbStep(expr, j, current_cmd) ==
    LET char == At(expr, j)
        blank == [kind |-> "", i |-> j, current_cmd |-> <<>>, emit |-> <<>>,
                  num |-> <<>>, den |-> <<>>]
    IN  IF char = BS /\ j + 1 < Len(expr)
        THEN LET cmd_end == ScanCmdEnd(expr, j + 1)
             IN  [blank EXCEPT !.kind = "command", !.i = cmd_end,
                               !.current_cmd = Slice(expr, j, cmd_end)]
        ELSE IF char = "{"
        THEN IF current_cmd = FRAC
             THEN LET num_start == j + 1
                      i1 == ScanGroup(expr, j + 1, 1)
                      num == Slice(expr, num_start, i1 - 1)
                  IN  IF i1 < Len(expr) /\ At(expr, i1) = "{"
                      THEN LET den_start == i1 + 1
                               i2 == ScanGroup(expr, i1 + 1, 1)
                               den == Slice(expr, den_start, i2 - 1)
                           IN  [blank EXCEPT !.kind = "frac", !.i = i2,
                                             !.num = num, !.den = den]
                      ELSE [blank EXCEPT !.kind = "frac_no_den", !.i = i1]
             ELSE IF current_cmd = SQRT
             THEN LET sqrt_start == j + 1
                      i1 == ScanGroup(expr, j + 1, 1)
                  IN  [blank EXCEPT !.kind = "sqrt", !.i = i1,
                                    !.num = Slice(expr, sqrt_start, i1 - 1)]
             ELSE [blank EXCEPT !.kind = "skip", !.i = SkipOther(expr, j),
                                !.current_cmd = current_cmd]
        ELSE [blank EXCEPT !.kind = "char", !.i = j + 1, !.emit = <<char>>]

(***************************************************************************)
(* process_braces and format_math_expression as functions of their input.  *)
(***************************************************************************)
RECURSIVE process_braces(_)
RECURSIVE PbFrom(_, _, _)

\* ''.join of what the loop appends to "result" from index j on
PbFrom(expr, j, current_cmd) ==
    IF j >= Len(expr) THEN <<>>
    ELSE LET st == PbStep(expr, j, current_cmd)
             out == CASE st.kind = "frac" ->
                            FracText(process_braces(st.num), process_braces(st.den))
                      [] st.kind = "sqrt" -> SqrtText(process_braces(st.num))
                      [] OTHER -> st.emit
         IN  out \o PbFrom(expr, st.i, st.current_cmd)

process_braces(expr) == PbFrom(expr, 0, <<>>)

format_math_expression(l) == process_braces(CleanLatex(l))

(***************************************************************************)
(* The inputs of format_math_expression the model runs it on.              *)
(***************************************************************************)
MathPieces == {FRAC, <<"{">>, <<"}">>, <<"x">>, <<BS>>}

\* Every concatenation of at most MaxMathPieces pieces: balanced, unbalanced
\* and unterminated brace structure, trailing backslashes, unknown commands.
FlatMath == {Concat(q) : q \in SeqsUpTo(MathPieces, MaxMathPieces)}

Group(a) == <<"{">> \o a \o <<"}">>
FracOf(a, b) == FRAC \o Group(a) \o Group(b)
SqrtOf(a) == SQRT \o Group(a)

\* Well-formed terms nested to a depth
RECURSIVE Terms(_)
Terms(d) ==
    IF d = 0 THEN {<<"x">>, <<"1">>}
    ELSE LET T == Terms(d - 1)
         IN  T \cup {FracOf(a, b) : a \in T, b \in T}
               \cup {SqrtOf(a) : a \in T}
               \cup {<<"x", "^">> \o Group(a) : a \in T}
               \cup {<<BS, "t">> \o Group(a) : a \in T}

EX_FRAC == FracOf(<<"1">>, <<"2">>)
EX_NESTED == FracOf(FracOf(<<"1">>, <<"2">>), <<"3">>)
EX_SQRT == SqrtOf(<<"4">>)
EX_POWER == <<"x", "^", "{", "2", "}">>
EX_ALPHA == <<BS, "a", "l", "p", "h", "a">>
EX_THINSPACE == <<"a", BS, ",", "b">>

MathExamples ==
    { EX_FRAC, EX_NESTED, EX_SQRT, EX_POWER, EX_ALPHA, EX_THINSPACE,
      <<"5", " ", BS, "t", "i", "m", "e", "s", " ", "3", " ", BS, "g", "e", " ", "2">>,
      <<" ">> \o OPEN_INLINE \o <<" ", "x", "_", "1", " ">> \o CLOSE_INLINE \o <<"\n">>,
      OPEN_DISPLAY \o EX_FRAC \o CLOSE_DISPLAY,
      OPEN_INLINE \o <<"x">> \o CLOSE_DISPLAY,
      FracOf(<<" ", "1">>, <<"2", " ">>),
      <<BS, "l", "e", "f", "t", "(", "x">>,
      <<"a", "{", "b", "}", "c">>,
      FRAC \o <<" ">> \o Group(<<"1">>) \o Group(<<"2">>),
      FRAC \o Group(<<"1">>) \o <<"x">>,
      SQRT, SQRT \o <<"{">>, SQRT \o <<"{", "x">>, SQRT \o <<"{", "{", "x", "}">>,
      SQRT \o <<"}", "x">>, SQRT \o <<"x">> \o Group(<<"1">>),
      SQRT \o Group(<<"x">>) \o Group(<<"1">>) }

LatexInputs == FlatMath \cup Terms(MaxDepth) \cup MathExamples

(***************************************************************************)
(* format_math_expression run step by step: process_braces with its call   *)
(* stack.  A frame holds the locals of one call; "wait" says which nested  *)
(* call the frame is suspended on.                                         *)
(***************************************************************************)
NewFrame(expr) ==
    [expr |-> expr, i |-> 0, current_cmd |-> <<>>, result |-> <<>>,
     wait |-> "", num_r |-> <<>>, den |-> <<>>]

top == stack[Len(stack)]

SetTop(f) == [stack EXCEPT ![Len(stack)] = f]

\* The top frame is at the head of its while loop with input left.
AtLoopHead == pc = "pb" /\ top.wait = "" /\ top.i < Len(top.expr)

TopStep == PbStep(top.expr, top.i, top.current_cmd)

Advanced(st) == [top EXCEPT !.i = st.i, !.current_cmd = st.current_cmd]

InitMath ==
    /\ pc = "fme"
    /\ arg \in LatexInputs
    /\ ret = NoValue
    /\ latex = <<>>
    /\ stack = <<>>
    /\ text = <<>>
    /\ matches = <<>>
    /\ latex_blocks = <<>>
    /\ loop_i = 0
    /\ lines = <<>>
    /\ formatted_lines = <<>>
    /\ BotIdle

\* llm.py 51-55
FmeStrip ==
    /\ pc = "fme"
    /\ latex' = StripDelimiters(arg)
    /\ loop_i' = 1
    /\ pc' = "symbols"
    /\ UNCHANGED <<bot, arg, ret, stack, text, matches, latex_blocks, lines,
                   formatted_lines>>

\* llm.py 71-72: one entry of the table
FmeReplaceSymbol ==
    /\ pc = "symbols"
    /\ loop_i <= Len(symbol_replacements)
    /\ latex' = replace(latex, symbol_replacements[loop_i][1],
                        symbol_replacements[loop_i][2])
    /\ loop_i' = loop_i + 1
    /\ UNCHANGED <<bot, pc, arg, ret, stack, text, matches, latex_blocks, lines,
                   formatted_lines>>

\* llm.py 150: the call process_braces(latex)
FmeWalk ==
    /\ pc = "symbols"
    /\ loop_i > Len(symbol_replacements)
    /\ stack' = <<NewFrame(latex)>>
    /\ pc' = "pb"
    /\ UNCHANGED <<bot, arg, ret, latex, text, matches, latex_blocks, loop_i, lines,
                   formatted_lines>>

\* llm.py 84-91
PbCommand ==
    /\ AtLoopHead
    /\ TopStep.kind = "command"
    /\ stack' = SetTop(Advanced(TopStep))
    /\ UNCHANGED <<bot, pc, arg, ret, latex, text, matches, latex_blocks, loop_i,
                   lines, formatted_lines>>

\* llm.py 94-115: both groups found, process_braces(num) is called
PbFrac ==
    /\ AtLoopHead
    /\ TopStep.kind = "frac"
    /\ stack' = Append(SetTop([Advanced(TopStep) EXCEPT !.wait = "num",
                                                        !.den = TopStep.den]),
                       NewFrame(TopStep.num))
    /\ UNCHANGED <<bot, pc, arg, ret, latex, text, matches, latex_blocks, loop_i,
                   lines, formatted_lines>>

\* llm.py 94-106, 116-117: no second group, nothing is appended
PbFracNoDen ==
    /\ AtLoopHead
    /\ TopStep.kind = "frac_no_den"
    /\ stack' = SetTop(Advanced(TopStep))
    /\ UNCHANGED <<bot, pc, arg, ret, latex, text, matches, latex_blocks, loop_i,
                   lines, formatted_lines>>

\* llm.py 119-129: process_braces(sqrt_content) is called
PbSqrt ==
    /\ AtLoopHead
    /\ TopStep.kind = "sqrt"
    /\ stack' = Append(SetTop([Advanced(TopStep) EXCEPT !.wait = "sqrt"]),
                       NewFrame(TopStep.num))
    /\ UNCHANGED <<bot, pc, arg, ret, latex, text, matches, latex_blocks, loop_i,
                   lines, formatted_lines>>

\* llm.py 133-141
PbSkip ==
    /\ AtLoopHead
    /\ TopStep.kind = "skip"
    /\ stack' = SetTop(Advanced(TopStep))
    /\ UNCHANGED <<bot, pc, arg, ret, latex, text, matches, latex_blocks, loop_i,
                   lines, formatted_lines>>

\* llm.py 143-146
PbChar ==
    /\ AtLoopHead
    /\ TopStep.kind = "char"
    /\ stack' = SetTop([Advanced(TopStep) EXCEPT
                            !.result = top.result \o TopStep.emit])
    /\ UNCHANGED <<bot, pc, arg, ret, latex, text, matches, latex_blocks, loop_i,
                   lines, formatted_lines>>

\* llm.py 115: process_braces(num) has returned, process_braces(den) is called
PbCallDen ==
    /\ pc = "pb"
    /\ top.wait = "den_call"
    /\ stack' = Append(SetTop([top EXCEPT !.wait = "den"]), NewFrame(top.den))
    /\ UNCHANGED <<bot, pc, arg, ret, latex, text, matches, latex_blocks, loop_i,
                   lines, formatted_lines>>

\* llm.py 148: return ''.join(result), and what the caller does with it
\* (115, 129: result.append(...); 130, 116: current_cmd = ""; 150: return)
PbReturn ==
    /\ pc = "pb"
    /\ top.wait = ""
    /\ top.i >= Len(top.expr)
    /\ IF Len(stack) = 1
       THEN /\ ret' = top.result
            /\ stack' = <<>>
            /\ pc' = "done"
       ELSE LET caller == stack[Len(stack) - 1]
                r == top.result
                resumed ==
                    CASE caller.wait = "num" ->
                           [caller EXCEPT !.wait = "den_call", !.num_r = r]
                      [] caller.wait = "den" ->
                           [caller EXCEPT
                               !.wait = "",
                               !.result = caller.result \o FracText(caller.num_r, r)]
                      [] caller.wait = "sqrt" ->
                           [caller EXCEPT
                               !.wait = "",
                               !.result = caller.result \o SqrtText(r)]
            IN  /\ stack' = Append(SubSeq(stack, 1, Len(stack) - 2), resumed)
                /\ UNCHANGED <<bot, pc, ret>>
    /\ UNCHANGED <<bot, arg, latex, text, matches, latex_blocks, loop_i, lines,
                   formatted_lines>>

NextMath ==
    \/ FmeStrip
    \/ FmeReplaceSymbol
    \/ FmeWalk
    \/ PbCommand
    \/ PbFrac
    \/ PbFracNoDen
    \/ PbSqrt
    \/ PbSkip
    \/ PbChar
    \/ PbCallDen
    \/ PbReturn

SpecMath == InitMath /\ [][NextMath]_vars

\* The interpreter runs the one thread of the call to its end: a step that
\* can be taken is taken.
SpecMathFair == SpecMath /\ WF_vars(NextMath)

\* The step-by-step run returns what the function computes.
MathRunAgrees == pc = "done" => ret = format_math_expression(arg)

(***************************************************************************)
(* Brace structure, stated without the code's scanning loops.              *)
(***************************************************************************)
CountIn(s, c, a, b) == Cardinality({n \in a..b : s[n] = c})

\* Opening minus closing braces among the first n characters
DepthAt(s, n) == CountIn(s, "{", 1, n) - CountIn(s, "}", 1, n)

Balanced(s) ==
    /\ \A n \in 0..Len(s) : DepthAt(s, n) >= 0
    /\ DepthAt(s, Len(s)) = 0

\* The index after the brace closing the group opened at index j of expr,
\* the length of expr when nothing closes it.
MatchEnd(expr, j) ==
    LET closers == {m \in (j + 1)..(Len(expr) - 1) :
                        /\ At(expr, m) = "}"
                        /\ CountIn(expr, "{", j + 2, m) = CountIn(expr, "}", j + 2, m)}
    IN  IF closers = {} THEN Len(expr)
        ELSE (CHOOSE m \in closers : \A q \in closers : m <= q) + 1

HasSub(s, p) == \E n \in 0..Len(s) : startswith(SliceFrom(s, n), p)

\* One step of the brace walk: an iteration moves its index forward, a call is
\* on a shorter string than its caller's, a return is from a finished loop.
PbAdvances ==
    (pc = "pb" /\ pc' = "pb") =>
        \/ /\ Len(stack') = Len(stack)
           /\ top'.expr = top.expr
           /\ top'.i > top.i
        \/ /\ Len(stack') = Len(stack) + 1
           /\ Len(top'.expr) < Len(top.expr)
           /\ stack'[Len(stack)].expr = top.expr
           /\ top.wait = "" => stack'[Len(stack)].i > top.i
        \/ /\ Len(stack') = Len(stack) - 1
           /\ top.i >= Len(top.expr)

(***************************************************************************)
(* C3.  format_math_expression terminates and returns a string for every   *)
(* input, malformed ones included: the run reaches its return, every       *)
(* iteration of process_braces moves the scan index forward, and every     *)
(* nested call is on a strictly shorter string.  (A read outside a string  *)
(* is an evaluation error of the model, so the run raising is excluded by  *)
(* the check completing.)                                                  *)
(***************************************************************************)
C3_TerminatesAdvancing ==
    /\ <>(pc = "done" /\ ret # NoValue)
    /\ [][PbAdvances]_vars

\* Reached: a \frac whose argument opens two groups and closes none has returned.
C3_Witness ==
    /\ pc = "done"
    /\ arg = FRAC \o <<"{", "{", "x">>
    /\ ret = <<>>

WithoutBraces(s) == SelectSeq(s, LAMBDA c : c \notin {"{", "}"})

(***************************************************************************)
(* C4.  As claimed: a brace group that is no argument of \frac or \sqrt    *)
(* loses its braces only, its content is emitted (x^{2} keeps the 2).      *)
(* Stated on the inputs with balanced braces and no backslash, where every *)
(* group is such a group.                                                  *)
(***************************************************************************)
C4_InnerContentKept ==
    (pc = "done" /\ ~Contains(arg, BS) /\ Balanced(arg))
        => ret = WithoutBraces(CleanLatex(arg))

\* The iteration at the opening brace of a group that no \frac or \sqrt takes.
C4_SkipDropsGroup ==
    (/\ AtLoopHead
     /\ At(top.expr, top.i) = "{"
     /\ top.current_cmd \notin {FRAC, SQRT})
        => /\ Len(stack') = Len(stack)
           /\ top'.expr = top.expr
           /\ top'.result = top.result
           /\ top'.i = MatchEnd(top.expr, top.i)

(***************************************************************************)
(* C4, amended.  A brace group that is no argument of \frac or \sqrt is    *)
(* dropped with its content: the iteration that meets its opening brace    *)
(* appends nothing and continues after the matching closing brace, or at   *)
(* the end of the input when the group is not closed (x^{2} gives x and    *)
(* the superscript sign, the 2 is lost).                                   *)
(***************************************************************************)
C4_GroupDropped == [][C4_SkipDropsGroup]_vars

C4_Witness ==
    /\ pc = "done"
    /\ arg = EX_POWER
    /\ ret = <<"x", SUPN>>

(***************************************************************************)
(* C5.  As claimed: text that is no \frac or \sqrt construct, no entry of  *)
(* the symbol table and no brace passes through unchanged, an unrecognized *)
(* backslash command included.  Stated on the inputs without braces,       *)
(* without \frac and \sqrt, and that the clean-up leaves as they are.      *)
(***************************************************************************)
C5_LiteralPassThrough ==
    (/\ pc = "done"
     /\ ~Contains(arg, "{") /\ ~Contains(arg, "}")
     /\ ~HasSub(arg, FRAC) /\ ~HasSub(arg, SQRT)
     /\ CleanLatex(arg) = arg)
        => ret = arg

(***************************************************************************)
(* C6.  The two structural commands are rewritten recursively: when the    *)
(* walked text is \frac{A}{B} with A and B brace-balanced the result is    *)
(* "(" render(A) ")/(" render(B) ")", when it is \sqrt{E} the result is    *)
(* the root sign, "(" render(E) ")", render being the brace walk itself;   *)
(* \frac{1}{2} gives (1)/(2), \frac{\frac{1}{2}}{3} gives ((1)/(2))/(3),   *)
(* \sqrt{4} gives the root sign and (4).                                   *)
(***************************************************************************)
C6_StructuralRecursive ==
    pc = "done" =>
        LET c == CleanLatex(arg)
        IN  /\ \A k \in 1..Len(c) :
                 LET A == Slice(c, 6, k)
                     B == Slice(c, k + 2, Len(c) - 1)
                 IN  (c = FracOf(A, B) /\ Balanced(A) /\ Balanced(B))
                        => ret = <<"(">> \o process_braces(A) \o <<")", "/", "(">>
                                    \o process_braces(B) \o <<")">>
            /\ LET E == Slice(c, 6, Len(c) - 1)
               IN  (c = SqrtOf(E) /\ Balanced(E))
                      => ret = <<ROOT, "(">> \o process_braces(E) \o <<")">>
            /\ arg = EX_FRAC => ret = <<"(", "1", ")", "/", "(", "2", ")">>
            /\ arg = EX_NESTED =>
                 ret = <<"(", "(", "1", ")", "/", "(", "2", ")", ")", "/", "(", "3", ")">>
            /\ arg = EX_SQRT => ret = <<ROOT, "(", "4", ")">>

C6_Witness ==
    /\ pc = "done"
    /\ arg = EX_NESTED
    /\ ret = <<"(", "(", "1", ")", "/", "(", "2", ")", ")", "/", "(", "3", ")">>

(***************************************************************************)
(* extract_latex_blocks.  The pattern \\[\(\[].*?\\[\)\]] with re.DOTALL:  *)
(* a backslash and "(" or "[", then as few characters as possible, then a  *)
(* backslash and ")" or "]".  A match is its span <<start, end>>.          *)
(***************************************************************************)
OPENERS == {"(", "["}
CLOSERS == {")", "]"}

\* What "." matches: with re.DOTALL every character, the newline included.
DotMatches(c) == TRUE

\* \\[\(\[] at index n
OpensAt(t, n) == n + 1 < Len(t) /\ At(t, n) = BS /\ At(t, n + 1) \in OPENERS

\* \\[\)\]] at index n
ClosesAt(t, n) == n + 1 < Len(t) /\ At(t, n) = BS /\ At(t, n + 1) \in CLOSERS

\* The indices at which a match that starts at n can end its lazy run
LazyEnds(t, n) ==
    {e \in (n + 2)..(Len(t) - 2) :
        /\ ClosesAt(t, e)
        /\ \A q \in (n + 2)..(e - 1) : DotMatches(At(t, q))}

MatchesAt(t, n) == OpensAt(t, n) /\ LazyEnds(t, n) # {}

\* The span of the match at n: the lazy run stops at the first closer.
SpanAt(t, n) ==
    <<n, (CHOOSE e \in LazyEnds(t, n) : \A q \in LazyEnds(t, n) : e <= q) + 2>>

\* re.finditer from position p on: leftmost match first, the scan resuming
\* at the end of each match.
RECURSIVE finditer(_, _)
finditer(t, p) ==
    LET starts == {n \in p..(Len(t) - 1) : MatchesAt(t, n)}
    IN  IF starts = {} THEN <<>>
        ELSE LET n == CHOOSE m \in starts : \A q \in starts : m <= q
             IN  <<SpanAt(t, n)>> \o finditer(t, SpanAt(t, n)[2])

\* An index that counts up with the loop instead of down.
PlaceholderIndexForward(n, j) == j

\* len(matches)-i-1
PlaceholderIndex(n, j) == n - j - 1

\* f"__LATEX_{k}__"
Placeholder(k) ==
    <<"_", "_", "L", "A", "T", "E", "X", "_">> \o str(k) \o <<"_", "_">>

\* latex_blocks.insert(0, latex)
InsertFirst(blocks, b) == <<b>> \o blocks

\* The body of the for-loop over reversed(matches), iteration j, on the
\* original text orig: the new <<text, latex_blocks>>.
ElbBody(orig, ms, j, t, blocks) ==
    LET match == ms[Len(ms) - j]
        block == Slice(orig, match[1], match[2])
        placeholder == Placeholder(PlaceholderIndex(Len(ms), j))
    IN  <<Slice(t, 0, match[1]) \o placeholder \o SliceFrom(t, match[2]),
          InsertFirst(blocks, block)>>

RECURSIVE ElbLoop(_, _, _, _, _)
ElbLoop(orig, ms, j, t, blocks) ==
    IF j >= Len(ms) THEN <<t, blocks>>
    ELSE LET r == ElbBody(orig, ms, j, t, blocks)
         IN  ElbLoop(orig, ms, j + 1, r[1], r[2])

\* extract_latex_blocks as a function: <<text, latex_blocks>>
extract_latex_blocks(t) == ElbLoop(t, finditer(t, 0), 0, t, <<>>)

(***************************************************************************)
(* extract_latex_blocks run step by step.                                  *)
(***************************************************************************)
TOKEN_0 == Placeholder(0)

TextPieces ==
    {OPEN_INLINE, CLOSE_INLINE, OPEN_DISPLAY, CLOSE_DISPLAY, <<"a">>, <<"\n">>,
     OPEN_DISPLAY \o <<"b">> \o CLOSE_DISPLAY, TOKEN_0}

TextInputs == {Concat(q) : q \in SeqsUpTo(TextPieces, MaxTextPieces)}

InitExtract ==
    /\ pc = "elb"
    /\ arg \in TextInputs
    /\ ret = NoValue
    /\ latex = <<>>
    /\ stack = <<>>
    /\ text = arg
    /\ matches = <<>>
    /\ latex_blocks = <<>>
    /\ loop_i = 0
    /\ lines = <<>>
    /\ formatted_lines = <<>>
    /\ BotIdle

\* llm.py 155-159
ElbFind ==
    /\ pc = "elb"
    /\ latex_blocks' = <<>>
    /\ matches' = finditer(text, 0)
    /\ loop_i' = 0
    /\ pc' = "elb_loop"
    /\ UNCHANGED <<bot, arg, ret, latex, stack, text, lines, formatted_lines>>

\* llm.py 163-168
ElbReplace ==
    /\ pc = "elb_loop"
    /\ loop_i < Len(matches)
    /\ LET r == ElbBody(arg, matches, loop_i, text, latex_blocks)
       IN  /\ text' = r[1]
           /\ latex_blocks' = r[2]
    /\ loop_i' = loop_i + 1
    /\ UNCHANGED <<bot, pc, arg, ret, latex, stack, matches, lines, formatted_lines>>

\* llm.py 170
ElbReturn ==
    /\ pc = "elb_loop"
    /\ loop_i >= Len(matches)
    /\ ret' = <<text, latex_blocks>>
    /\ pc' = "done"
    /\ UNCHANGED <<bot, arg, latex, stack, text, matches, latex_blocks, loop_i, lines,
                   formatted_lines>>

NextExtract ==
    \/ ElbFind
    \/ ElbReplace
    \/ ElbReturn

SpecExtract == InitExtract /\ [][NextExtract]_vars

\* The step-by-step run returns what the function computes.
ExtractRunAgrees == pc = "done" => ret = extract_latex_blocks(arg)

(***************************************************************************)
(* Placeholder tokens in a text, read without the code.                    *)
(***************************************************************************)
TOKEN_HEAD == <<"_", "_", "L", "A", "T", "E", "X", "_">>
TOKEN_TAIL == <<"_", "_">>
DIGITS == {"0", "1", "2", "3", "4", "5", "6", "7", "8", "9"}

\* The index after the digits that start at index n
RECURSIVE DigitsEnd(_, _)
DigitsEnd(t, n) ==
    IF n < Len(t) /\ At(t, n) \in DIGITS THEN DigitsEnd(t, n + 1) ELSE n

\* A token __LATEX_<digits>__ starts at index n
TokenAt(t, n) ==
    /\ startswith(SliceFrom(t, n), TOKEN_HEAD)
    /\ DigitsEnd(t, n + 8) > n + 8
    /\ startswith(SliceFrom(t, DigitsEnd(t, n + 8)), TOKEN_TAIL)

TokenEnd(t, n) == DigitsEnd(t, n + 8) + 2

\* The number written in the digits at indices a .. b-1
RECURSIVE NumberIn(_, _, _)
NumberIn(t, a, b) ==
    IF b <= a THEN 0
    ELSE 10 * NumberIn(t, a, b - 1)
           + (CHOOSE d \in 0..9 : Digit(d) = At(t, b - 1))

TokenIndex(t, n) == NumberIn(t, n + 8, DigitsEnd(t, n + 8))

TokenCount(t) == Cardinality({n \in 0..(Len(t) - 1) : TokenAt(t, n)})

\* Every token __LATEX_k__ of t, read left to right, replaced by blocks[k]
RECURSIVE Substituted(_, _, _)
Substituted(t, n, blocks) ==
    IF n >= Len(t) THEN <<>>
    ELSE IF TokenAt(t, n) /\ TokenIndex(t, n) < Len(blocks)
         THEN blocks[TokenIndex(t, n) + 1] \o Substituted(t, TokenEnd(t, n), blocks)
         ELSE <<At(t, n)>> \o Substituted(t, n + 1, blocks)

(***************************************************************************)
(* C2.  For every input text, the text extract_latex_blocks returns holds  *)
(* as many placeholder tokens __LATEX_k__ as blocks are returned, and      *)
(* replacing each token __LATEX_k__ by block k gives back the input.       *)
(***************************************************************************)
C2_RoundTrip ==
    pc = "done" =>
        /\ TokenCount(ret[1]) = Len(ret[2])
        /\ Substituted(ret[1], 0, ret[2]) = arg

\* The input from index p on, with the spans of matches k, k+1, ... replaced
\* by the placeholders numbered k-1, k, ...
RECURSIVE Woven(_, _, _, _)
Woven(orig, ms, k, p) ==
    IF k > Len(ms) THEN SliceFrom(orig, p)
    ELSE Slice(orig, p, ms[k][1])
           \o TOKEN_HEAD \o str(k - 1) \o TOKEN_TAIL
           \o Woven(orig, ms, k + 1, ms[k][2])

(***************************************************************************)
(* C7.  The blocks are returned in reading order although the spans are    *)
(* replaced from the rightmost match to the leftmost: block k is the k-th  *)
(* match of the input, the returned text is the input with the span of     *)
(* the k-th match replaced by __LATEX_k__ and everything between the spans *)
(* kept, so the placeholders put in stand in ascending order of index.     *)
(***************************************************************************)
C7_ReadingOrder ==
    pc = "done" =>
        /\ \A k \in 1..(Len(matches) - 1) : matches[k][2] <= matches[k + 1][1]
        /\ Len(ret[2]) = Len(matches)
        /\ \A k \in 1..Len(matches) :
               ret[2][k] = Slice(arg, matches[k][1], matches[k][2])
        /\ ret[1] = Woven(arg, matches, 1, 0)

\* Reached: two different blocks, an inline one before a display one.
C7_Witness ==
    /\ pc = "done"
    /\ arg = OPEN_INLINE \o CLOSE_INLINE \o <<"a">> \o OPEN_DISPLAY \o <<"b">> \o CLOSE_DISPLAY
    /\ ret[2] = <<OPEN_INLINE \o CLOSE_INLINE, OPEN_DISPLAY \o <<"b">> \o CLOSE_DISPLAY>>
    /\ ret[1] = Placeholder(0) \o <<"a">> \o Placeholder(1)

(***************************************************************************)
(* C8.  Every block returned starts with an opening delimiter and ends     *)
(* with the closing delimiter of the same kind: \( with \), \[ with \].    *)
(***************************************************************************)
C8_MatchingDelimiters ==
    pc = "done" =>
        \A k \in 1..Len(ret[2]) :
            \/ startswith(ret[2][k], OPEN_INLINE) /\ endswith(ret[2][k], CLOSE_INLINE)
            \/ startswith(ret[2][k], OPEN_DISPLAY) /\ endswith(ret[2][k], CLOSE_DISPLAY)

(***************************************************************************)
(* format_line_message.                                                    *)
(***************************************************************************)
\* The backtick, named by its code point (the lexer reserves the character).
BACKTICK == "U+0060"
HASH == <<"#">>
STEP == <<"S", "t", "e", "p">>
SUMMARY == <<"S", "u", "m", "m", "a", "r", "y">>
THIS == <<"T", "h", "i", "s">>
SINCE == <<"S", "i", "n", "c", "e">>
THEREFORE == <<"T", "h", "e", "r", "e", "f", "o", "r", "e">>

\* line.lstrip('#').strip()
HeaderText(line) == strip(lstrip_char(line, "#"))

\* The condition of lines 180 and 183 together
IsStepHeader(line) ==
    /\ startswith(strip(line), HASH)
    /\ startswith_any(HeaderText(line), {STEP, SUMMARY})

\* formatted_lines and formatted_lines[-1].strip()
LastNonBlank(fl) == fl # <<>> /\ strip(fl[Len(fl)]) # <<>>

\* A cleaning that removes the stars only
CleanedLineStarsOnly(line) ==
    IF ~Contains(line, BACKTICK) THEN replace(line, <<"*">>, <<>>) ELSE line

\* line.replace('*', '').replace('_', '') unless the line holds a backtick
CleanedLine(line) ==
    IF ~Contains(line, BACKTICK)
    THEN replace(replace(line, <<"*">>, <<>>), <<"_">>, <<>>)
    ELSE line

\* llm.py 181-188: the lines appended for a Step/Summary header
HeaderBranch(fl, line) ==
    (IF LastNonBlank(fl) THEN Append(fl, <<>>) ELSE fl) \o <<HeaderText(line)>>

\* llm.py 191-195: the lines appended for a blank line
BlankBranch(fl) == IF LastNonBlank(fl) THEN Append(fl, <<>>) ELSE fl

\* The same with a separator after every equation, whatever line follows
LineBranchAfterEveryEquation(fl, ls, j) ==
    LET line == ls[j + 1]
        cleaned_line == CleanedLine(line)
        added == Append(fl, strip(cleaned_line))
    IN  IF j + 1 < Len(ls)
        THEN LET next_line == strip(ls[j + 2])
             IN  IF startswith_any(next_line, {HASH, STEP, SUMMARY})
                 THEN Append(added, <<>>)
                 ELSE IF Contains(cleaned_line, "=")
                 THEN Append(added, <<>>)
                 ELSE added
        ELSE added

\* llm.py 198-213: the lines appended for any other line, j its index in ls
LineBranch(fl, ls, j) ==
    LET line == ls[j + 1]
        cleaned_line == CleanedLine(line)
        added == Append(fl, strip(cleaned_line))
    IN  IF j + 1 < Len(ls)
        THEN LET next_line == strip(ls[j + 2])
             IN  IF startswith_any(next_line, {HASH, STEP, SUMMARY})
                 THEN Append(added, <<>>)
                 ELSE IF /\ Contains(cleaned_line, "=")
                         /\ ~startswith_any(next_line, {THIS, SINCE, THEREFORE})
                 THEN Append(added, <<>>)
                 ELSE added
        ELSE added

\* The branch iteration j takes
LineKind(ls, j) ==
    IF IsStepHeader(ls[j + 1]) THEN "header"
    ELSE IF strip(ls[j + 1]) = <<>> THEN "blank"
    ELSE "line"

\* One iteration of the for-loop: formatted_lines after it
FlmBody(fl, ls, j) ==
    CASE LineKind(ls, j) = "header" -> HeaderBranch(fl, ls[j + 1])
      [] LineKind(ls, j) = "blank" -> BlankBranch(fl)
      [] OTHER -> LineBranch(fl, ls, j)

RECURSIVE FlmLoop(_, _, _)
FlmLoop(fl, ls, j) ==
    IF j >= Len(ls) THEN fl ELSE FlmLoop(FlmBody(fl, ls, j), ls, j + 1)

\* llm.py 216-217
RECURSIVE PopTrailingBlank(_)
PopTrailingBlank(fl) ==
    IF fl # <<>> /\ strip(fl[Len(fl)]) = <<>>
    THEN PopTrailingBlank(SubSeq(fl, 1, Len(fl) - 1))
    ELSE fl

NL == "\n"
NEWLINE == <<NL>>

\* format_line_message as a function
format_line_message(t) ==
    join(NEWLINE, PopTrailingBlank(FlmLoop(<<>>, split(t, NL), 0)))

(***************************************************************************)
(* format_line_message run step by step.                                   *)
(***************************************************************************)
LINE_STEP_1 == <<"#", "#", " ">> \o STEP \o <<" ", "1">>

LineChoices ==
    { <<>>, <<" ">>, <<"a">>, <<"*", "*", "*">>,
      LINE_STEP_1,
      <<" ", " ">> \o LINE_STEP_1,
      <<"#", " ", "I", "n", "t", "r", "o">>,
      <<"x", "=", "1">>,
      THIS,
      STEP \o <<" ", "2">>,
      <<"#">> \o SUMMARY,
      <<"a", "_", "b", "*">>,
      <<BACKTICK, "a", "_", "b", BACKTICK>> }

\* Two text lines with three blank lines between them
EX_THREE_BLANKS == <<"a", "\n", "\n", "\n", "\n", "b">>

\* An emphasised line, then a line holding a code span
EX_EMPHASIS ==
    <<"T", "h", "i", "s", " ", "i", "s", " ", "*", "i", "m", "p", "o", "r",
      "t", "a", "n", "t", "*">>
EX_CODE_SPAN ==
    <<"U", "s", "e", " ", BACKTICK, "x", "_", "1", BACKTICK, " ", "h", "e",
      "r", "e">>
EX_EMPHASIS_CODE == EX_EMPHASIS \o NEWLINE \o EX_CODE_SPAN

LineInputs ==
    {join(NEWLINE, q) : q \in SeqsUpTo(LineChoices, MaxLines) \ {<<>>}}
        \cup {EX_THREE_BLANKS, EX_EMPHASIS_CODE}

InitLines ==
    /\ pc = "flm"
    /\ arg \in LineInputs
    /\ ret = NoValue
    /\ latex = <<>>
    /\ stack = <<>>
    /\ text = arg
    /\ matches = <<>>
    /\ latex_blocks = <<>>
    /\ loop_i = 0
    /\ lines = <<>>
    /\ formatted_lines = <<>>
    /\ BotIdle

\* llm.py 175-176
FlmSplit ==
    /\ pc = "flm"
    /\ lines' = split(text, NL)
    /\ formatted_lines' = <<>>
    /\ loop_i' = 0
    /\ pc' = "flm_loop"
    /\ UNCHANGED <<bot, arg, ret, latex, stack, text, matches, latex_blocks>>

AtLine == pc = "flm_loop" /\ loop_i < Len(lines)

\* llm.py 180-188
FlmHeader ==
    /\ AtLine
    /\ LineKind(lines, loop_i) = "header"
    /\ formatted_lines' = HeaderBranch(formatted_lines, lines[loop_i + 1])
    /\ loop_i' = loop_i + 1
    /\ UNCHANGED <<bot, pc, arg, ret, latex, stack, text, matches, latex_blocks, lines>>

\* llm.py 191-195
FlmBlank ==
    /\ AtLine
    /\ LineKind(lines, loop_i) = "blank"
    /\ formatted_lines' = BlankBranch(formatted_lines)
    /\ loop_i' = loop_i + 1
    /\ UNCHANGED <<bot, pc, arg, ret, latex, stack, text, matches, latex_blocks, lines>>

\* llm.py 198-213
FlmLine ==
    /\ AtLine
    /\ LineKind(lines, loop_i) = "line"
    /\ formatted_lines' = LineBranch(formatted_lines, lines, loop_i)
    /\ loop_i' = loop_i + 1
    /\ UNCHANGED <<bot, pc, arg, ret, latex, stack, text, matches, latex_blocks, lines>>

\* llm.py 216-219
FlmReturn ==
    /\ pc = "flm_loop"
    /\ loop_i >= Len(lines)
    /\ formatted_lines' = PopTrailingBlank(formatted_lines)
    /\ ret' = join(NEWLINE, PopTrailingBlank(formatted_lines))
    /\ pc' = "done"
    /\ UNCHANGED <<bot, arg, latex, stack, text, matches, latex_blocks, loop_i, lines>>

NextLines ==
    \/ FlmSplit
    \/ FlmHeader
    \/ FlmBlank
    \/ FlmLine
    \/ FlmReturn

SpecLines == InitLines /\ [][NextLines]_vars

\* The step-by-step run returns what the function computes.
LinesRunAgrees == pc = "done" => ret = format_line_message(arg)

IsBlank(line) == strip(line) = <<>>

(***************************************************************************)
(* C9.  The output of format_line_message never holds two adjacent blank   *)
(* lines, whatever mix of blank lines, headers, emphasis-only lines and    *)
(* look-ahead separators the input triggers; three blank lines between two *)
(* text lines come out as one.                                             *)
(***************************************************************************)
C9_NoAdjacentBlankLines ==
    pc = "done" =>
        /\ LET out == split(ret, NL)
           IN  \A k \in 1..(Len(out) - 1) : ~(IsBlank(out[k]) /\ IsBlank(out[k + 1]))
        /\ arg = EX_THREE_BLANKS => ret = <<"a", NL, NL, "b">>

\* The label of a header line: trimmed, leading "#" removed, trimmed.
Label(line) == strip(lstrip_char(strip(line), "#"))

\* The iteration on a Step/Summary header line appends the label, after one
\* blank line when the last emitted line is non-blank.
C10_HeaderStep ==
    (/\ AtLine
     /\ startswith(strip(lines[loop_i + 1]), HASH)
     /\ startswith_any(Label(lines[loop_i + 1]), {STEP, SUMMARY}))
        => formatted_lines' =
              formatted_lines
                \o (IF formatted_lines # <<>> /\ ~IsBlank(formatted_lines[Len(formatted_lines)])
                    THEN <<<<>>>> ELSE <<>>)
                \o <<Label(lines[loop_i + 1])>>

(***************************************************************************)
(* C10.  Every input line whose trimmed form starts with "#" and whose     *)
(* label (the trimmed line without its leading "#" characters, trimmed)    *)
(* starts with Step or Summary is emitted as the bare label, after one     *)
(* added blank line when the line emitted before it is non-blank and after *)
(* none when nothing was emitted or the line before is blank; leading      *)
(* whitespace before the "#" markers changes nothing.                      *)
(***************************************************************************)
C10_HeaderBecomesLabel == [][C10_HeaderStep]_vars

\* A line without its stars and underscores
Unmarked(line) == SelectSeq(line, LAMBDA c : c \notin {"*", "_"})

\* The iteration on a line that is neither blank nor emitted as a header
\* label appends the line trimmed, its stars and underscores removed first
\* exactly when it holds no backtick.
C11_LineStep ==
    (/\ AtLine
     /\ ~IsBlank(lines[loop_i + 1])
     /\ ~IsStepHeader(lines[loop_i + 1]))
        => LET line == lines[loop_i + 1]
               n == Len(formatted_lines)
           IN  /\ Len(formatted_lines') > n
               /\ SubSeq(formatted_lines', 1, n) = formatted_lines
               /\ formatted_lines'[n + 1] =
                     IF Contains(line, BACKTICK)
                     THEN strip(line)
                     ELSE strip(Unmarked(line))

(***************************************************************************)
(* C11.  A non-blank, non-header line that holds no backtick is emitted    *)
(* with every "*" and "_" removed and the surrounding whitespace trimmed;  *)
(* a line that holds a backtick is emitted with its "*" and "_" kept, only *)
(* trimmed.  "This is *important*" gives "This is important" and the line  *)
(* with the code span x_1 comes out unchanged.                             *)
(***************************************************************************)
C11_EmphasisStripped ==
    /\ [][C11_LineStep]_vars
    /\ [](pc = "done" /\ arg = EX_EMPHASIS_CODE
            => ret = SubSeq(EX_EMPHASIS, 1, 8) \o SubSeq(EX_EMPHASIS, 10, 18)
                       \o NEWLINE \o EX_CODE_SPAN)

\* Reached: both example lines were emitted.
C11_Witness ==
    /\ pc = "done"
    /\ arg = EX_EMPHASIS_CODE
    /\ Len(ret) = Len(arg) - 2

\* Whether a separator follows the text line at index j of ls
SeparatorAfter(ls, j) ==
    /\ j + 1 < Len(ls)
    /\ LET next == strip(ls[j + 2])
       IN  \/ startswith_any(next, {HASH, STEP, SUMMARY})
           \/ /\ Contains(ls[j + 1], "=")
              /\ ~startswith_any(next, {THIS, SINCE, THEREFORE})

\* The iteration on a line that is neither blank nor emitted as a header
\* label appends one text line and then one empty line or none.
C14_LineStep ==
    (/\ AtLine
     /\ ~IsBlank(lines[loop_i + 1])
     /\ ~IsStepHeader(lines[loop_i + 1]))
        => LET n == Len(formatted_lines)
           IN  /\ SubSeq(formatted_lines', 1, n) = formatted_lines
               /\ IF SeparatorAfter(lines, loop_i)
                  THEN Len(formatted_lines') = n + 2 /\ formatted_lines'[n + 2] = <<>>
                  ELSE Len(formatted_lines') = n + 1

\* An equation, a continuation, then a line starting with Step
EX_LOOKAHEAD == join(NEWLINE, << <<"x", "=", "1">>, THIS, STEP \o <<" ", "2">> >>)

(***************************************************************************)
(* C14.  After a non-header, non-blank line is emitted, exactly one blank  *)
(* separator is emitted when a next input line exists and either its       *)
(* trimmed form starts with "#", Step or Summary, or the current line      *)
(* holds "=" and the trimmed next line does not start with This, Since or  *)
(* Therefore; in every other case, and after the last input line, none is. *)
(* The output never ends with a blank line.                                *)
(***************************************************************************)
C14_LookAheadSeparator ==
    /\ [][C14_LineStep]_vars
    /\ [](pc = "done" =>
            /\ ret = <<>> \/ ~IsBlank(split(ret, NL)[Len(split(ret, NL))])
            /\ arg = EX_LOOKAHEAD =>
                  ret = <<"x", "=", "1", NL>> \o THIS \o <<NL, NL>> \o STEP \o <<" ", "2">>)

\* Reached: no separator after the equation, one before the Step line.
C14_Witness ==
    /\ pc = "done"
    /\ arg = EX_LOOKAHEAD
    /\ Len(ret) = Len(arg) + 1

(***************************************************************************)
(* format_solution run step by step.                                       *)
(***************************************************************************)
FALLBACK ==
    <<"S", "o", "r", "r", "y", ",", " ", "I", " ",
      "e", "n", "c", "o", "u", "n", "t", "e", "r", "e", "d", " ",
      "a", "n", " ", "e", "r", "r", "o", "r", ".", " ",
      "P", "l", "e", "a", "s", "e", " ", "t", "r", "y", " ",
      "a", "g", "a", "i", "n", " ", "l", "a", "t", "e", "r", ".">>

\* "not answer" is false
Truthy(ans) == ans # None /\ ans # <<>>

\* f""{formatted_math}"" between two backticks
Wrapped(formatted_math) == <<BACKTICK>> \o formatted_math \o <<BACKTICK>>

\* llm.py 230-232: the body of the loop for block j of blocks, on text t
FsBody(t, blocks, j) ==
    replace(t, Placeholder(j), Wrapped(format_math_expression(blocks[j + 1])))

RECURSIVE FsLoop(_, _, _)
FsLoop(t, blocks, j) ==
    IF j >= Len(blocks) THEN t ELSE FsLoop(FsBody(t, blocks, j), blocks, j + 1)

\* format_solution as a function
format_solution(ans) ==
    IF ~Truthy(ans) THEN FALLBACK
    ELSE LET e == extract_latex_blocks(ans)
         IN  format_line_message(FsLoop(e[1], e[2], 0))

AnswerPieces ==
    { <<" ">>, <<NL>>, <<"\t">>, <<"a">>,
      OPEN_INLINE \o EX_FRAC \o CLOSE_INLINE,
      LINE_STEP_1,
      <<"*">>,
      TOKEN_HEAD \o <<"0">> }

\* The end-to-end example of the specification
EX_END_TO_END ==
    LINE_STEP_1 \o <<NL, "S", "o", "l", "v", "e", " ">>
      \o OPEN_INLINE \o EX_FRAC \o <<" ", "+", " ">> \o FracOf(<<"1">>, <<"3">>)
      \o CLOSE_INLINE \o <<" ", "t", "o", " ", "g", "e", "t", ".", NL, NL>>
      \o <<"#", "#", " ">> \o SUMMARY \o <<NL, "I", "t", " ", "i", "s", " ",
           "*", "5", "/", "6", "*", ".">>

AnswerInputs ==
    {Concat(q) : q \in SeqsUpTo(AnswerPieces, MaxAnswerPieces)}
        \cup {None, FALLBACK, EX_END_TO_END}

InitSolution ==
    /\ pc = "fs"
    /\ arg \in AnswerInputs
    /\ ret = NoValue
    /\ latex = <<>>
    /\ stack = <<>>
    /\ text = <<>>
    /\ matches = <<>>
    /\ latex_blocks = <<>>
    /\ loop_i = 0
    /\ lines = <<>>
    /\ formatted_lines = <<>>
    /\ BotIdle

\* llm.py 223-224
FsFallback ==
    /\ pc = "fs"
    /\ ~Truthy(arg)
    /\ ret' = FALLBACK
    /\ pc' = "done"
    /\ UNCHANGED <<bot, arg, latex, stack, text, matches, latex_blocks, loop_i, lines,
                   formatted_lines>>

\* llm.py 227
FsExtract ==
    /\ pc = "fs"
    /\ Truthy(arg)
    /\ text' = extract_latex_blocks(arg)[1]
    /\ latex_blocks' = extract_latex_blocks(arg)[2]
    /\ loop_i' = 0
    /\ pc' = "fs_loop"
    /\ UNCHANGED <<bot, arg, ret, latex, stack, matches, lines, formatted_lines>>

\* llm.py 230-232
FsReplaceBlock ==
    /\ pc = "fs_loop"
    /\ loop_i < Len(latex_blocks)
    /\ text' = FsBody(text, latex_blocks, loop_i)
    /\ loop_i' = loop_i + 1
    /\ UNCHANGED <<bot, pc, arg, ret, latex, stack, matches, latex_blocks, lines,
                   formatted_lines>>

\* llm.py 235-236
FsNormalize ==
    /\ pc = "fs_loop"
    /\ loop_i >= Len(latex_blocks)
    /\ ret' = format_line_message(text)
    /\ pc' = "done"
    /\ UNCHANGED <<bot, arg, latex, stack, text, matches, latex_blocks, loop_i, lines,
                   formatted_lines>>

NextSolution ==
    \/ FsFallback
    \/ FsExtract
    \/ FsReplaceBlock
    \/ FsNormalize

SpecSolution == InitSolution /\ [][NextSolution]_vars

Spec == SpecSolution

\* The step-by-step run returns what the function computes.
SolutionRunAgrees == pc = "done" => ret = format_solution(arg)

(***************************************************************************)
(* C1.  format_solution returns exactly the fallback string for every      *)
(* input that is None, empty, or made only of whitespace characters.       *)
(***************************************************************************)
C1_FallbackOnBlankInput ==
    (pc = "done" /\ (arg = None \/ strip(arg) = <<>>)) => ret = FALLBACK

\* The renderings of the blocks, each between two backticks
WrappedRenderings(blocks) ==
    [k \in 1..Len(blocks) |-> Wrapped(format_math_expression(blocks[k]))]

\* The answer from index p on: the span of match k, k+1, ... replaced by the
\* wrapped rendering of its block, and in the text between the spans every
\* token that was there already replaced as well
RECURSIVE RenderedWoven(_, _, _, _, _)
RenderedWoven(orig, ms, k, p, ws) ==
    IF k > Len(ms) THEN Substituted(SliceFrom(orig, p), 0, ws)
    ELSE Substituted(Slice(orig, p, ms[k][1]), 0, ws)
           \o ws[k]
           \o RenderedWoven(orig, ms, k + 1, ms[k][2], ws)

(***************************************************************************)
(* C15.  No rendering of a block holds "_", "^" or "{", so none holds a    *)
(* placeholder token.  When the replacement loop of format_solution has    *)
(* finished, the text is the extracted text with all tokens replaced at    *)
(* once, and each placeholder the extractor put in for block k has become  *)
(* exactly the rendering of block k between two backticks.                 *)
(***************************************************************************)
C15_IndexedSubstitution ==
    (pc = "fs_loop" /\ loop_i >= Len(latex_blocks)) =>
        LET ws == WrappedRenderings(latex_blocks)
        IN  /\ \A k \in 1..Len(latex_blocks) :
                  LET r == format_math_expression(latex_blocks[k])
                  IN  ~Contains(r, "_") /\ ~Contains(r, "^") /\ ~Contains(r, "{")
            /\ text = Substituted(extract_latex_blocks(arg)[1], 0, ws)
            /\ text = RenderedWoven(arg, finditer(arg, 0), 1, 0, ws)

(***************************************************************************)
(* call_openrouter and generate_answer (llm.py 26-45, 239-265), run step   *)
(* by step.  The outcome of a request to the API is not the program's to   *)
(* choose: each attempt either raises or returns some content.             *)
(***************************************************************************)
\* The pipeline's locals, which these functions do not touch
pipe == <<latex, text, matches, latex_blocks, loop_i, lines, formatted_lines>>

\* An exception (class Exception) in place of a value
Raised == <<"Raised">>

\* max_retries: int = 2
DEFAULT_MAX_RETRIES == 2

\* asyncio.sleep(1)
SLEEP_SECONDS == 1

\* The largest max_retries call_openrouter is called with on its own
MaxRetries == 3

\* response.choices[0].message.content: a str or None
ApiContents ==
    { None, <<>>, <<" ">>, <<"a">>, FALLBACK, EX_END_TO_END, LINE_STEP_1,
      OPEN_INLINE \o EX_FRAC \o CLOSE_INLINE,
      <<"x", "=", "1", NL, "b">>, <<"*", "*", "*">>, <<"a", NL, NL, NL, "b">> }

UserInputs == { <<>>, <<"q">>, <<" ">>, <<"1", "+", "1">> }

\* What the running call has awaited: a request with its outcome, or a sleep
Request(outcome) == <<"create", outcome>>
Sleep == <<"sleep", SLEEP_SECONDS>>

\* A last-attempt test that no attempt passes
IsLastAttemptNever(a, m) == a = m

\* attempt == max_retries - 1
IsLastAttempt(a, m) == a = m - 1

\* A return of call_openrouter: to its caller, or out of the run
CoReturns(value) ==
    IF stack = <<>>
    THEN /\ pc' = "done"
         /\ ret' = value
         /\ UNCHANGED <<answer, stack>>
    ELSE /\ pc' = Head(stack)
         /\ stack' = Tail(stack)
         /\ answer' = value
         /\ UNCHANGED ret

\* The values call_openrouter can return
CallOpenrouterOutcomes == ApiContents \cup {FALLBACK}

\* format_solution(answer) for the answers call_openrouter can return
FormattedOutcomes == {format_solution(a) : a \in CallOpenrouterOutcomes}

\* The values generate_answer can return for a user input
GenerateAnswerOutcomes(input) ==
    IF input = <<>> THEN {<<>>} ELSE FormattedOutcomes

InitAnswer ==
    /\ \/ /\ pc = "generate_answer"
          /\ arg \in UserInputs
          /\ user_input = arg
          /\ max_retries = 0
       \/ /\ pc = "call_openrouter"
          /\ arg = NoValue
          /\ user_input = NoValue
          /\ max_retries \in 0..MaxRetries
    /\ ret = NoValue
    /\ stack = <<>>
    /\ attempt = 0
    /\ answer = NoValue
    /\ calls = <<>>
    /\ events = <<>>
    /\ results = <<>>
    /\ solution = NoValue
    /\ replies = <<>>
    /\ latex = <<>>
    /\ text = <<>>
    /\ matches = <<>>
    /\ latex_blocks = <<>>
    /\ loop_i = 0
    /\ lines = <<>>
    /\ formatted_lines = <<>>

\* llm.py 241-243
GaEmpty ==
    /\ pc = "generate_answer"
    /\ user_input = <<>>
    /\ ret' = <<>>
    /\ pc' = "done"
    /\ UNCHANGED <<pipe, arg, stack, user_input, max_retries, attempt, answer, calls,
                   events, results, solution, replies>>

\* llm.py 246: str.format raises on a prompt template with a stray brace
GaPromptRaises ==
    /\ pc = "generate_answer"
    /\ user_input # <<>>
    /\ pc' = "raised"
    /\ UNCHANGED <<pipe, arg, ret, stack, user_input, max_retries, attempt, answer,
                   calls, events, results, solution, replies>>

\* llm.py 245-256: the call of call_openrouter(messages)
GaCall ==
    /\ pc = "generate_answer"
    /\ user_input # <<>>
    /\ max_retries' = DEFAULT_MAX_RETRIES
    /\ stack' = <<"ga_format">> \o stack
    /\ pc' = "call_openrouter"
    /\ UNCHANGED <<pipe, arg, ret, user_input, attempt, answer, calls, events,
                   results, solution, replies>>

\* llm.py 28-30
CoCreateClient ==
    /\ pc = "call_openrouter"
    /\ attempt' = 0
    /\ calls' = <<>>
    /\ pc' = "co_loop"
    /\ UNCHANGED <<pipe, arg, ret, stack, user_input, max_retries, answer, events,
                   results, solution, replies>>

\* llm.py 32-37: the request returns; its content is returned
CoRequestOk ==
    /\ pc = "co_loop"
    /\ attempt < max_retries
    /\ \E content \in ApiContents :
          /\ calls' = Append(calls, Request(content))
          /\ CoReturns(content)
    /\ UNCHANGED <<pipe, arg, user_input, max_retries, attempt, events, results,
                   solution, replies>>

\* llm.py 32-43: the request (or reading choices[0] of its response) raises
\* on an attempt that is not the last
CoRequestFails ==
    /\ pc = "co_loop"
    /\ attempt < max_retries
    /\ ~IsLastAttempt(attempt, max_retries)
    /\ calls' = calls \o <<Request(Raised), Sleep>>
    /\ attempt' = attempt + 1
    /\ UNCHANGED <<pipe, pc, arg, ret, stack, user_input, max_retries, answer, events,
                   results, solution, replies>>

\* llm.py 32-41: the request raises on the last attempt
CoRequestFailsLast ==
    /\ pc = "co_loop"
    /\ attempt < max_retries
    /\ IsLastAttempt(attempt, max_retries)
    /\ calls' = Append(calls, Request(Raised))
    /\ CoReturns(FALLBACK)
    /\ UNCHANGED <<pipe, arg, user_input, max_retries, attempt, events, results,
                   solution, replies>>

\* llm.py 45: the loop ran out
CoExhausted ==
    /\ pc = "co_loop"
    /\ attempt >= max_retries
    /\ CoReturns(FALLBACK)
    /\ UNCHANGED <<pipe, arg, user_input, max_retries, attempt, calls, events,
                   results, solution, replies>>

\* llm.py 259-265
GaFormat ==
    /\ pc = "ga_format"
    /\ ret' = format_solution(answer)
    /\ pc' = "done"
    /\ UNCHANGED <<pipe, arg, stack, user_input, max_retries, attempt, answer, calls,
                   events, results, solution, replies>>

NextAnswer ==
    \/ GaEmpty
    \/ GaPromptRaises
    \/ GaCall
    \/ CoCreateClient
    \/ CoRequestOk
    \/ CoRequestFails
    \/ CoRequestFailsLast
    \/ CoExhausted
    \/ GaFormat

SpecAnswer == InitAnswer /\ [][NextAnswer]_vars

\* The step-by-step run returns one of the values the function can return.
AnswerRunAgrees ==
    pc = "done" =>
        IF user_input = NoValue THEN ret \in CallOpenrouterOutcomes
        ELSE ret \in GenerateAnswerOutcomes(user_input)

\* The requests among the awaited calls
Attempts(cs) == Len(SelectSeq(cs, LAMBDA c : c[1] = "create"))

\* k failed requests, each followed by the fixed delay
RECURSIVE FailedAndWaited(_)
FailedAndWaited(k) ==
    IF k = 0 THEN <<>> ELSE FailedAndWaited(k - 1) \o <<Request(Raised), Sleep>>

\* call_openrouter has returned, and the value it returned
CoReturned == pc = "ga_format" \/ (pc = "done" /\ user_input = NoValue)
CoValue == IF pc = "ga_format" THEN answer ELSE ret

(***************************************************************************)
(* C12.  call_openrouter makes at most max_retries attempts (2 when        *)
(* generate_answer calls it).  When it returns, either its last awaited    *)
(* call is the first request that succeeded and it returns that content,   *)
(* or all max_retries requests failed and it returns the fallback string;  *)
(* every failed request but the last is followed by the fixed delay, the   *)
(* last by none; no exception leaves it.  generate_answer then returns     *)
(* the fallback string unchanged.                                          *)
(***************************************************************************)
C12_RetryThenFallback ==
    /\ Attempts(calls) <= max_retries
    /\ pc = "co_loop" => calls = FailedAndWaited(attempt)
    /\ CoReturned =>
         LET n == Attempts(calls)
         IN  \/ /\ n >= 1
                /\ \E content \in ApiContents :
                      /\ calls = FailedAndWaited(n - 1) \o <<Request(content)>>
                      /\ CoValue = content
             \/ /\ n = max_retries
                /\ n >= 1
                /\ calls = FailedAndWaited(n - 1) \o <<Request(Raised)>>
                /\ CoValue = FALLBACK
             \/ /\ max_retries = 0
                /\ calls = <<>>
                /\ CoValue = FALLBACK
    /\ (pc = "done" /\ user_input # NoValue /\ answer = FALLBACK) => ret = FALLBACK
    /\ pc = "raised" => calls = <<>>

\* Reached: generate_answer returned the fallback after both requests failed.
C12_Witness ==
    /\ pc = "done"
    /\ user_input = <<"q">>
    /\ calls = <<Request(Raised), Sleep, Request(Raised)>>
    /\ ret = FALLBACK

(***************************************************************************)
(* AsyncWebhookHandler.handle and handle_text_message (main.py 53-88,      *)
(* 120-150), run step by step on the events parsed from one webhook body.  *)
(* Whether a reply_message call succeeds is the messaging API's to choose. *)
(***************************************************************************)
MaxEvents == 2

\* A parsed event: its type, whether it carries a source, its message text
TextEvent(message_text) ==
    [type |-> "message/text", source |-> TRUE, text |-> message_text]
SourcelessTextEvent == [type |-> "message/text", source |-> FALSE, text |-> <<"q">>]
FollowEvent == [type |-> "follow", source |-> TRUE, text |-> <<>>]

\* The message texts users send
UserMessages == { <<>>, <<"q">> }

EventChoices ==
    {TextEvent(u) : u \in UserMessages} \cup {SourcelessTextEvent, FollowEvent}

\* A reply_message call: the event it answers, where in handle_text_message
\* it is made, the text it carries and whether it succeeded
Reply(k, where, message_text, delivered) ==
    [event |-> k, at |-> where, text |-> message_text, ok |-> delivered]

\* The text of handle_image_message's error reply (main.py 183)
ImageErrorReplyText ==
    <<"S", "o", "r", "r", "y", ",", " ", "I", " ", "c", "o", "u", "l", "d",
      "n", "'", "t", " ", "p", "r", "o", "c", "e", "s", "s", " ", "y", "o",
      "u", "r", " ", "i", "m", "a", "g", "e", ".", " ", "P", "l", "e", "a",
      "s", "e", " ", "t", "r", "y", " ", "a", "g", "a", "i", "n", ".">>

\* The text of the error reply (main.py 146)
ErrorReplyText == FALLBACK

\* generate_answer can raise: formatting the prompt, on a non-empty input
GenerateAnswerCanRaise(input) == input # <<>>

InitWebhook ==
    /\ pc = "handle"
    /\ arg \in SeqsUpTo(EventChoices, MaxEvents)
    /\ ret = NoValue
    /\ stack = <<>>
    /\ user_input = NoValue
    /\ max_retries = 0
    /\ attempt = 0
    /\ answer = NoValue
    /\ calls = <<>>
    /\ events = <<>>
    /\ results = <<>>
    /\ solution = NoValue
    /\ replies = <<>>
    /\ latex = <<>>
    /\ text = <<>>
    /\ matches = <<>>
    /\ latex_blocks = <<>>
    /\ loop_i = 0
    /\ lines = <<>>
    /\ formatted_lines = <<>>

\* main.py 57-58
HandleParse ==
    /\ pc = "handle"
    /\ events' = arg
    /\ results' = <<>>
    /\ loop_i' = 0
    /\ pc' = "handle_loop"
    /\ UNCHANGED <<arg, ret, stack, user_input, max_retries, attempt, answer, calls,
                   solution, replies, latex, text, matches, latex_blocks, lines,
                   formatted_lines>>

\* main.py 57: the parser rejects the body or its signature
HandleParseRaises ==
    /\ pc = "handle"
    /\ pc' = "raised"
    /\ UNCHANGED <<pipe, arg, ret, stack, bot>>

AtEvent == pc = "handle_loop" /\ loop_i < Len(events)

\* main.py 60-79: no handler is registered for the event's type
HandleNoHandler ==
    /\ AtEvent
    /\ events[loop_i + 1].type # "message/text"
    /\ loop_i' = loop_i + 1
    /\ UNCHANGED <<pc, arg, ret, stack, bot, latex, text, matches, latex_blocks,
                   lines, formatted_lines>>

\* main.py 60-82: the call of handle_text_message(event)
HandleDispatch ==
    /\ AtEvent
    /\ events[loop_i + 1].type = "message/text"
    /\ pc' = "htm"
    /\ UNCHANGED <<pipe, arg, ret, stack, bot>>

\* main.py 122-124
HtmReadEvent ==
    /\ pc = "htm"
    /\ events[loop_i + 1].source
    /\ user_input' = events[loop_i + 1].text
    /\ pc' = "htm_try"
    /\ UNCHANGED <<pipe, arg, ret, stack, max_retries, attempt, answer, calls,
                   events, results, solution, replies>>

\* main.py 122: event.source is None; the AttributeError is outside the try
HtmNoSource ==
    /\ pc = "htm"
    /\ ~events[loop_i + 1].source
    /\ pc' = "handle_except"
    /\ UNCHANGED <<pipe, arg, ret, stack, bot>>

\* main.py 127-129: generate_answer returns
HtmGenerate ==
    /\ pc = "htm_try"
    /\ \E s \in GenerateAnswerOutcomes(user_input) : solution' = s
    /\ pc' = "htm_reply"
    /\ UNCHANGED <<pipe, arg, ret, stack, user_input, max_retries, attempt, answer,
                   calls, events, results, replies>>

\* main.py 127, 139: generate_answer raises
HtmGenerateRaises ==
    /\ pc = "htm_try"
    /\ GenerateAnswerCanRaise(user_input)
    /\ pc' = "htm_except"
    /\ UNCHANGED <<pipe, arg, ret, stack, bot>>

\* main.py 132-138: the reply is sent and the handler returns
HtmReply ==
    /\ pc = "htm_reply"
    /\ replies' = Append(replies, Reply(loop_i, "try", solution, TRUE))
    /\ pc' = "handle_result"
    /\ UNCHANGED <<pipe, arg, ret, stack, user_input, max_retries, attempt, answer,
                   calls, events, results, solution>>

\* main.py 132-139: reply_message raises
HtmReplyRaises ==
    /\ pc = "htm_reply"
    /\ replies' = Append(replies, Reply(loop_i, "try", solution, FALSE))
    /\ pc' = "htm_except"
    /\ UNCHANGED <<pipe, arg, ret, stack, user_input, max_retries, attempt, answer,
                   calls, events, results, solution>>

\* main.py 139-150: the error reply, whose own failure is only logged
HtmExcept ==
    /\ pc = "htm_except"
    /\ \E delivered \in BOOLEAN :
          replies' = Append(replies, Reply(loop_i, "except", ErrorReplyText, delivered))
    /\ pc' = "handle_result"
    /\ UNCHANGED <<pipe, arg, ret, stack, user_input, max_retries, attempt, answer,
                   calls, events, results, solution>>

\* main.py 83: the handler returned None
HandleResult ==
    /\ pc = "handle_result"
    /\ results' = Append(results, None)
    /\ loop_i' = loop_i + 1
    /\ user_input' = NoValue
    /\ solution' = NoValue
    /\ pc' = "handle_loop"
    /\ UNCHANGED <<arg, ret, stack, max_retries, attempt, answer, calls, events,
                   replies, latex, text, matches, latex_blocks, lines,
                   formatted_lines>>

\* main.py 84-86: the handler raised; the dispatcher logs and raises again
HandleReraise ==
    /\ pc = "handle_except"
    /\ pc' = "raised"
    /\ UNCHANGED <<pipe, arg, ret, stack, bot>>

\* main.py 88
HandleReturn ==
    /\ pc = "handle_loop"
    /\ loop_i >= Len(events)
    /\ ret' = results
    /\ pc' = "done"
    /\ UNCHANGED <<pipe, arg, stack, bot>>

NextWebhook ==
    \/ HandleParse
    \/ HandleParseRaises
    \/ HandleNoHandler
    \/ HandleDispatch
    \/ HtmReadEvent
    \/ HtmNoSource
    \/ HtmGenerate
    \/ HtmGenerateRaises
    \/ HtmReply
    \/ HtmReplyRaises
    \/ HtmExcept
    \/ HandleResult
    \/ HandleReraise
    \/ HandleReturn

SpecWebhook == InitWebhook /\ [][NextWebhook]_vars

\* The reply_message calls made for event k
RepliesOf(k) == SelectSeq(replies, LAMBDA r : r.event = k)

\* The events handle_text_message has finished with
Finished ==
    {k \in 0..(Len(events) - 1) :
        /\ events[k + 1].type = "message/text"
        /\ events[k + 1].source
        /\ \/ k < loop_i
           \/ k = loop_i /\ pc = "handle_result"}

(***************************************************************************)
(* C13.  For every text-message event handle_text_message has finished     *)
(* with, the replies attempted are exactly: one reply that was sent (the   *)
(* success path); or, when generating the answer raised, one reply with    *)
(* the fallback text; or, when the first reply raised, that reply and one  *)
(* more with the fallback text.  At least one reply is attempted in every  *)
(* case, and no exception raised inside the try block reaches the          *)
(* dispatcher: the dispatcher sees an exception only from reading an       *)
(* event that carries no source.                                           *)
(***************************************************************************)
C13_ReplyAlwaysAttempted ==
    /\ \A k \in Finished :
          LET rs == RepliesOf(k)
          IN  \/ /\ Len(rs) = 1
                 /\ rs[1].at = "try"
                 /\ rs[1].ok
                 /\ rs[1].text \in GenerateAnswerOutcomes(events[k + 1].text)
              \/ /\ Len(rs) = 1
                 /\ rs[1].at = "except"
                 /\ rs[1].text = FALLBACK
              \/ /\ Len(rs) = 2
                 /\ rs[1].at = "try"
                 /\ ~rs[1].ok
                 /\ rs[2].at = "except"
                 /\ rs[2].text = FALLBACK
    /\ pc = "handle_except" => ~events[loop_i + 1].source
    /\ pc = "raised" => (events = <<>> \/ ~events[loop_i + 1].source)

\* Reached: the first reply raised, the fallback reply was sent, handle returned.
C13_Witness ==
    /\ pc = "done"
    /\ events = <<TextEvent(<<"q">>)>>
    /\ Len(replies) = 2
    /\ ~replies[1].ok
    /\ replies[2] = Reply(0, "except", FALLBACK, TRUE)

=============================================================================
